---- MODULE Spec2Model ----
(***************************************************************************)
(* Model of the livy_server management command                             *)
(* (apps/spark/src/spark/management/commands/livy_server.py).              *)
(*                                                                         *)
(* Command.handle picks a session kind from its positional arguments,      *)
(* copies the process environment, builds the argument vector of the       *)
(* livy-server launcher script located relative to the module file, logs   *)
(* one line and replaces the process image with os.execve.                 *)
(*                                                                         *)
(* Python strings are modelled as sequences of one-character strings, so   *)
(* that str.lower, os.path.dirname and os.path.join are computed character *)
(* by character, as the library computes them.  Two invocations of the     *)
(* command (two operating-system processes) are modelled side by side so   *)
(* that statements comparing invocations can be checked.                   *)
(***************************************************************************)
EXTENDS Naturals, Sequences, FiniteSets

\* Largest number of positional arguments handed to handle().
MaxArgs == 2

\* The two invocations of the command that are compared.
Procs == {"p1", "p2"}

(***************************************************************************)
(* String helpers (Python str methods used by the command).                *)
(***************************************************************************)

ascii_uppercase ==
  <<"A", "B", "C", "D", "E", "F", "G", "H", "I", "J", "K", "L", "M",
    "N", "O", "P", "Q", "R", "S", "T", "U", "V", "W", "X", "Y", "Z">>

ascii_lowercase ==
  <<"a", "b", "c", "d", "e", "f", "g", "h", "i", "j", "k", "l", "m",
    "n", "o", "p", "q", "r", "s", "t", "u", "v", "w", "x", "y", "z">>

\* One character of str.lower(): an upper-case letter maps to its lower-case
\* letter, every other character is kept.
lower_char(c) ==
  IF \E i \in 1..Len(ascii_uppercase) : ascii_uppercase[i] = c
  THEN ascii_lowercase[CHOOSE i \in 1..Len(ascii_uppercase) : ascii_uppercase[i] = c]
  ELSE c

\* str.lower()
lower(s) == [i \in 1..Len(s) |-> lower_char(s[i])]

\* str.startswith('/')
startswith_sep(s) == Len(s) > 0 /\ s[1] = "/"

\* str.endswith('/')
endswith_sep(s) == Len(s) > 0 /\ s[Len(s)] = "/"

\* str.rfind('/') + 1: the 1-based position of the last '/', 0 when absent.
rfind_sep(s) ==
  IF \E i \in 1..Len(s) : s[i] = "/"
  THEN CHOOSE i \in 1..Len(s) : s[i] = "/" /\ \A j \in (i + 1)..Len(s) : s[j] # "/"
  ELSE 0

\* str.rstrip('/')
RECURSIVE rstrip_sep(_)
rstrip_sep(s) ==
  IF endswith_sep(s) THEN rstrip_sep(SubSeq(s, 1, Len(s) - 1)) ELSE s

(***************************************************************************)
(* os.path (posixpath) functions used by the command.                      *)
(***************************************************************************)

\* os.path.dirname(p)
dirname(p) ==
  LET head == SubSeq(p, 1, rfind_sep(p))
  IN  IF Len(head) > 0 /\ (\E i \in 1..Len(head) : head[i] # "/")
      THEN rstrip_sep(head)
      ELSE head

\* One iteration of the loop of os.path.join(a, *p).
join_step(path, b) ==
  IF startswith_sep(b) THEN b
  ELSE IF Len(path) = 0 \/ endswith_sep(path) THEN path \o b
  ELSE path \o <<"/">> \o b

\* os.path.join(a, *p), p given as a sequence of strings.
RECURSIVE path_join(_, _)
path_join(a, p) ==
  IF Len(p) = 0 THEN a ELSE path_join(join_step(a, Head(p)), Tail(p))

(***************************************************************************)
(* Literals of the command.                                                *)
(***************************************************************************)

\* Variant: the default kind is 'yarn'.
DefaultKindYarn == <<"y", "a", "r", "n">>

\* 'process', the default session kind (line 38).
DefaultKind == <<"p", "r", "o", "c", "e", "s", "s">>

\* The path components joined onto the module directory (lines 47-53).
ParentDir == <<".", ".">>

JavaDir == <<"j", "a", "v", "a">>

BinDir == <<"b", "i", "n">>

LivyServer == <<"l", "i", "v", "y", "-", "s", "e", "r", "v", "e", "r">>

\* Variant: one parent-directory step fewer.
RelativePartsThreeUp == <<ParentDir, ParentDir, ParentDir, JavaDir, BinDir, LivyServer>>

RelativeParts == <<ParentDir, ParentDir, ParentDir, ParentDir, JavaDir, BinDir, LivyServer>>

\* The name `bin` used on line 57 is bound nowhere in the module: it resolves
\* to the interpreter's built-in function bin.
BuiltinBin == [type |-> "builtin_function_or_method", value |-> <<"b", "i", "n">>]

\* The session kinds named in the command's usage text (line 33).
KnownKinds == {DefaultKind, <<"y", "a", "r", "n">>}

(***************************************************************************)
(* Inputs.                                                                 *)
(***************************************************************************)

\* Argument strings a caller passes: the empty string, an upper/mixed-case
\* known kind, the default kind already in lower case, an unknown kind.
ArgStrings ==
  { <<>>,
    <<"Y", "a", "R", "N">>,
    <<"p", "r", "o", "c", "e", "s", "s">>,
    <<"F", "o", "-", "1">> }

\* Strings a caller passes after the first argument (one that would change
\* the session kind if it were read).
ExtraStrings == { <<"Y", "a", "R", "N">> }

RECURSIVE SeqsUpTo(_, _)
SeqsUpTo(S, n) ==
  IF n = 0 THEN { <<>> }
  ELSE LET shorter == SeqsUpTo(S, n - 1)
       IN  shorter \cup { Append(s, x) : s \in shorter, x \in S }

\* The positional argument sequences handle() is invoked with: none, or a
\* first argument followed by up to MaxArgs - 1 further ones.
ArgSeqs ==
  { <<>> } \cup { <<first>> \o rest : first \in ArgStrings, rest \in SeqsUpTo(ExtraStrings, MaxArgs - 1) }

\* Process environments (os.environ) the command is started in.
EmptyEnv == [n \in {} |-> ""]

Environs ==
  { [n \in {"PATH"} |-> "/usr/bin"],
    [n \in {"PATH", "LIVY_HOME"} |-> IF n = "PATH" THEN "/bin" ELSE "/opt/livy"] }

\* Installation layouts: the value of __file__ of the command module,
\* "/h/s/s/m/c/l.py" (absolute) and "l.py" (no directory part).
Layouts ==
  { <<"/", "h", "/", "s", "/", "s", "/", "m", "/", "c", "/", "l", ".", "p", "y">>,
    <<"l", ".", "p", "y">> }

\* Results of the execve system call: the image is replaced, or errno.
ExecveErrors == {"ENOENT", "EACCES"}

ExecveResults == {"replaced"} \cup ExecveErrors

(***************************************************************************)
(* State.                                                                  *)
(***************************************************************************)

VARIABLES
  file,          \* __file__ of the command module (the installation layout)
  pc,            \* per process: position in handle()
  cmdline,       \* per process: the positional arguments the caller passed
  environ,       \* per process: os.environ
  args,          \* per process: local `args` (rebound on line 44)
  session_kind,  \* per process: local `session_kind`
  env,           \* per process: local `env`
  log,           \* per process: records handed to LOG
  execCalls,     \* per process: os.execve calls made
  raised         \* per process: exception propagating out of handle()

vars == <<file, pc, cmdline, environ, args, session_kind, env, log, execCalls, raised>>

Init ==
  /\ file \in Layouts
  /\ pc = [p \in Procs |-> "idle"]
  /\ cmdline = [p \in Procs |-> <<>>]
  /\ environ = [p \in Procs |-> EmptyEnv]
  /\ args = [p \in Procs |-> <<>>]
  /\ session_kind = [p \in Procs |-> <<>>]
  /\ env = [p \in Procs |-> EmptyEnv]
  /\ log = [p \in Procs |-> <<>>]
  /\ execCalls = [p \in Procs |-> <<>>]
  /\ raised = [p \in Procs |-> "none"]

(***************************************************************************)
(* Steps of Command.handle.                                                *)
(***************************************************************************)

\* The caller starts the command in a process with environment e and calls
\* handle(*a).
Invoke(p) ==
  /\ pc[p] = "idle"
  /\ \E a \in ArgSeqs, e \in Environs :
       /\ cmdline' = [cmdline EXCEPT ![p] = a]
       /\ args' = [args EXCEPT ![p] = a]
       /\ environ' = [environ EXCEPT ![p] = e]
  /\ pc' = [pc EXCEPT ![p] = "kind"]
  /\ UNCHANGED <<file, session_kind, env, log, execCalls, raised>>

\* Variant: `if not args or not args[0]` (an empty first argument falls back
\* to the default).
SessionKindFalsy(a) ==
  IF Len(a) = 0 \/ Len(a[1]) = 0 THEN DefaultKind ELSE lower(a[1])

\* Variant: the kind is taken from the last argument, args[-1].
SessionKindLast(a) == IF Len(a) = 0 THEN DefaultKind ELSE lower(a[Len(a)])

\* Variant: a kind outside the known set is replaced by the default.
SessionKindValidated(a) ==
  IF Len(a) = 0 \/ lower(a[1]) \notin KnownKinds THEN DefaultKind ELSE lower(a[1])

\* Lines 37-40: the session kind.
SessionKind(a) == IF Len(a) = 0 THEN DefaultKind ELSE lower(a[1])

SelectKind(p) ==
  /\ pc[p] = "kind"
  /\ session_kind' = [session_kind EXCEPT ![p] = SessionKind(args[p])]
  /\ pc' = [pc EXCEPT ![p] = "env"]
  /\ UNCHANGED <<file, cmdline, environ, args, env, log, execCalls, raised>>

\* Variant: the copy is given a LIVY_HOME of the command's own choosing.
CopyOfSetsHome(e) ==
  [n \in DOMAIN e \cup {"LIVY_HOME"} |-> IF n = "LIVY_HOME" THEN "/usr/lib/livy" ELSE e[n]]

\* Line 42: os.environ.copy().
CopyOf(e) == e

CopyEnv(p) ==
  /\ pc[p] = "env"
  /\ env' = [env EXCEPT ![p] = CopyOf(environ[p])]
  /\ pc' = [pc EXCEPT ![p] = "args"]
  /\ UNCHANGED <<file, cmdline, environ, args, session_kind, log, execCalls, raised>>

\* Lines 45-53: the path of the livy-server launcher, for every layout
\* (a constant table, so that the path is computed once per layout).
LauncherPaths == [f \in Layouts |-> path_join(dirname(f), RelativeParts)]

ResolvedPath(f) == LauncherPaths[f]

\* Lines 44-55: the argument vector; it rebinds the local `args`.
ArgVector(f, kind) == <<ResolvedPath(f), kind>>

BuildArgs(p) ==
  /\ pc[p] = "args"
  /\ args' = [args EXCEPT ![p] = ArgVector(file, session_kind[p])]
  /\ pc' = [pc EXCEPT ![p] = "log"]
  /\ UNCHANGED <<file, cmdline, environ, session_kind, env, log, execCalls, raised>>

\* Variant: the session kind is logged in place of the argument list.
LogValuesKind(a, e) ==
  << BuiltinBin, [type |-> "str", value |-> a[2]], [type |-> "dict", value |-> e] >>

\* Line 57: the values formatted into the message, in the order of the
\* format string "Executing %r (%r) (%r)".
LogValues(a, e) ==
  << BuiltinBin, [type |-> "list", value |-> a], [type |-> "dict", value |-> e] >>

LogInfo(p) ==
  /\ pc[p] = "log"
  /\ log' = [log EXCEPT ![p] =
               Append(@, [levelname |-> "INFO", values |-> LogValues(args[p], env[p])])]
  /\ pc' = [pc EXCEPT ![p] = "exec"]
  /\ UNCHANGED <<file, cmdline, environ, args, session_kind, env, execCalls, raised>>

\* Variant: os.execve(args[0], args[1:], env).
ExecveCallNoArgv0(a, e) == [path |-> a[1], argv |-> Tail(a), env |-> e]

\* Line 60: os.execve(args[0], args, env).
ExecveCall(a, e) == [path |-> a[1], argv |-> a, env |-> e]

\* Variant: a failed execve is attempted again.
AfterExecveRetry(result) == IF result = "replaced" THEN "Replaced" ELSE "exec"

\* Variant: the program is spawned as a child and handle() returns.
AfterExecveSpawn(result) == IF result = "replaced" THEN "Returned" ELSE "Failed"

\* The position after os.execve: the process has become the executed program,
\* or OSError propagates out of handle() (nothing catches it).
AfterExecve(result) == IF result = "replaced" THEN "Replaced" ELSE "Failed"

Execve(p) ==
  /\ pc[p] = "exec"
  /\ execCalls' = [execCalls EXCEPT ![p] = Append(@, ExecveCall(args[p], env[p]))]
  /\ \E result \in ExecveResults :
       /\ pc' = [pc EXCEPT ![p] = AfterExecve(result)]
       /\ raised' = [raised EXCEPT ![p] = IF result = "replaced" THEN "none" ELSE result]
  /\ UNCHANGED <<file, cmdline, environ, args, session_kind, env, log>>

Next ==
  \E p \in Procs :
    \/ Invoke(p)
    \/ SelectKind(p)
    \/ CopyEnv(p)
    \/ BuildArgs(p)
    \/ LogInfo(p)
    \/ Execve(p)

Spec == Init /\ [][Next]_vars

\* Every started step of a sequential program is eventually taken and the
\* execve system call returns or replaces the image.
FairSpec == Spec /\ \A p \in Procs : WF_vars(SelectKind(p) \/ CopyEnv(p) \/ BuildArgs(p) \/ LogInfo(p) \/ Execve(p))

(***************************************************************************)
(* Properties.                                                             *)
(***************************************************************************)

\* C1: for every non-empty argument sequence (also one whose first element
\* is the empty string or already lower-case) the session kind in the
\* argument vector of the execve call is the lower-cased first element.
C1_KindIsLoweredFirstArg ==
  \A p \in Procs : \A i \in 1..Len(execCalls[p]) :
    Len(cmdline[p]) > 0 =>
      /\ Len(execCalls[p][i].argv) >= 2
      /\ execCalls[p][i].argv[2] = lower(cmdline[p][1])

\* One invocation with first argument "YaRN" has called execve with "yarn",
\* another with first argument "" has called it with "".
C1_Witness ==
  \E p, q \in Procs :
    /\ Len(execCalls[p]) = 1 /\ Len(cmdline[p]) > 0
    /\ cmdline[p][1] = <<"Y", "a", "R", "N">>
    /\ execCalls[p][1].argv[2] = <<"y", "a", "r", "n">>
    /\ Len(execCalls[q]) = 1 /\ Len(cmdline[q]) > 0
    /\ cmdline[q][1] = <<>>
    /\ execCalls[q][1].argv[2] = <<>>

\* C2: with the empty argument sequence the session kind is "process" and
\* execve is called with the argument vector <resolved path, "process">.
C2_EmptyArgsGiveProcess ==
  \A p \in Procs : \A i \in 1..Len(execCalls[p]) :
    cmdline[p] = <<>> =>
      /\ session_kind[p] = <<"p", "r", "o", "c", "e", "s", "s">>
      /\ execCalls[p][i].argv = <<ResolvedPath(file), <<"p", "r", "o", "c", "e", "s", "s">> >>

C2_Witness ==
  \E p \in Procs :
    /\ cmdline[p] = <<>>
    /\ Len(execCalls[p]) = 1
    /\ execCalls[p][1].argv[2] = <<"p", "r", "o", "c", "e", "s", "s">>

\* C3: every execve call has an argument vector of exactly two elements,
\* the resolved path then the session kind, and executes that same path.
C3_ArgvIsPathThenKind ==
  \A p \in Procs : \A i \in 1..Len(execCalls[p]) :
    /\ Len(execCalls[p][i].argv) = 2
    /\ execCalls[p][i].argv[1] = ResolvedPath(file)
    /\ execCalls[p][i].argv[2] = session_kind[p]
    /\ execCalls[p][i].path = execCalls[p][i].argv[1]

\* An invocation with two positional arguments has made its call.
C3_Witness ==
  \E p \in Procs :
    /\ Len(cmdline[p]) = 2
    /\ Len(execCalls[p]) = 1
    /\ Len(execCalls[p][1].argv) = 2

\* C4: two invocations whose argument sequences have the same first element
\* and whose environments are equal make the same execve call (path,
\* argument vector, environment), whatever the further arguments are.
C4_ExtraArgsIgnored ==
  \A p, q \in Procs :
    ( /\ Len(execCalls[p]) > 0 /\ Len(execCalls[q]) > 0
      /\ Len(cmdline[p]) > 0 /\ Len(cmdline[q]) > 0
      /\ cmdline[p][1] = cmdline[q][1]
      /\ environ[p] = environ[q] )
    => execCalls[p] = execCalls[q]

\* Two invocations with the same first argument, the same environment and
\* different further arguments have both made their call.
C4_Witness ==
  \E p, q \in Procs :
    /\ Len(execCalls[p]) = 1 /\ Len(execCalls[q]) = 1
    /\ Len(cmdline[p]) = 1 /\ Len(cmdline[q]) > 1
    /\ cmdline[p][1] = cmdline[q][1]
    /\ cmdline[q][Len(cmdline[q])] # cmdline[q][1]
    /\ environ[p] = environ[q]

\* C5: the executed path is the module file's directory, four ".." steps,
\* then java/bin/livy-server; it is the same in every invocation of an
\* installation, whatever the arguments and the environment.
C5_PathFixedPerLayout ==
  LET dir == dirname(file)
      prefix == IF Len(dir) = 0 \/ dir[Len(dir)] = "/" THEN dir ELSE dir \o <<"/">>
      suffix == << ".", ".", "/", ".", ".", "/", ".", ".", "/", ".", ".", "/",
                   "j", "a", "v", "a", "/", "b", "i", "n", "/",
                   "l", "i", "v", "y", "-", "s", "e", "r", "v", "e", "r" >>
  IN  /\ \A p \in Procs : \A i \in 1..Len(execCalls[p]) :
           execCalls[p][i].path = prefix \o suffix
      /\ \A p, q \in Procs :
           (Len(execCalls[p]) > 0 /\ Len(execCalls[q]) > 0)
             => execCalls[p][1].path = execCalls[q][1].path

\* Two invocations with different first arguments and different
\* environments have both made their call.
C5_Witness ==
  \E p, q \in Procs :
    /\ Len(execCalls[p]) = 1 /\ Len(execCalls[q]) = 1
    /\ Len(cmdline[p]) = 0 /\ Len(cmdline[q]) > 0
    /\ environ[p] # environ[q]
    /\ execCalls[p][1].path = execCalls[q][1].path

\* C6: the environment handed to execve has exactly the keys and values of
\* the process environment: none is added, removed or changed between the
\* capture and the call.
C6_EnvPassedThrough ==
  \A p \in Procs :
    /\ pc[p] \in {"args", "log", "exec"} => env[p] = environ[p]
    /\ \A i \in 1..Len(execCalls[p]) :
         /\ DOMAIN execCalls[p][i].env = DOMAIN environ[p]
         /\ \A n \in DOMAIN environ[p] : execCalls[p][i].env[n] = environ[p][n]

C6_Witness ==
  \E p \in Procs :
    /\ Len(execCalls[p]) = 1
    /\ DOMAIN environ[p] = {"PATH"}
    /\ execCalls[p][1].env = environ[p]

\* C7: when the execve call fails the command ends in failure with the
\* error raised out of handle(), the process is not replaced, and no second
\* execve call is made.
C7_FailureIsFinal ==
  /\ [](\A p \in Procs :
          pc[p] = "Failed" => (raised[p] \in ExecveErrors /\ Len(execCalls[p]) = 1))
  /\ [][\A p \in Procs :
          /\ (Len(execCalls'[p]) > Len(execCalls[p]) /\ pc'[p] # "Replaced")
               => (pc'[p] = "Failed" /\ raised'[p] \in ExecveErrors)
          /\ pc[p] = "Failed"
               => (pc'[p] = "Failed" /\ execCalls'[p] = execCalls[p] /\ raised'[p] = raised[p])
       ]_vars

C7_Witness ==
  \E p \in Procs :
    /\ pc[p] = "Failed"
    /\ raised[p] = "ENOENT"
    /\ Len(execCalls[p]) = 1

\* C8: the session kind is not validated: no invocation fails before its
\* execve call, every invocation proceeds to the call, and the kind computed
\* from the first argument reaches the argument vector unchanged, also when
\* it is outside {process, yarn}.
C8_NoValidation ==
  /\ [](\A p \in Procs : pc[p] = "Failed" => Len(execCalls[p]) >= 1)
  /\ [](\A p \in Procs : \A i \in 1..Len(execCalls[p]) :
          Len(cmdline[p]) > 0 =>
            /\ session_kind[p] = lower(cmdline[p][1])
            /\ execCalls[p][i].argv = <<execCalls[p][i].path, session_kind[p]>>)
  /\ \A p \in Procs : (pc[p] = "kind") ~> (Len(execCalls[p]) >= 1)

\* An invocation with the unknown kind "Fo-1" has called execve with "fo-1".
C8_Witness ==
  \E p \in Procs :
    /\ Len(execCalls[p]) = 1
    /\ Len(cmdline[p]) > 0
    /\ session_kind[p] \notin KnownKinds
    /\ execCalls[p][1].argv[2] = <<"f", "o", "-", "1">>

\* C9: an invocation runs its steps in one fixed order, makes exactly one
\* execve call and ends in exactly one of Replaced and Failed; after
\* Replaced no step of the command runs.
C9_LinearOneShot ==
  /\ \A p \in Procs : (pc[p] = "kind") ~> (pc[p] \in {"Replaced", "Failed"})
  /\ [](\A p \in Procs :
          /\ Len(execCalls[p]) <= 1
          /\ pc[p] \in {"Replaced", "Failed"} => Len(execCalls[p]) = 1)
  /\ [][\A p \in Procs :
          /\ pc'[p] # pc[p] =>
               <<pc[p], pc'[p]>> \in
                 { <<"idle", "kind">>, <<"kind", "env">>, <<"env", "args">>,
                   <<"args", "log">>, <<"log", "exec">>,
                   <<"exec", "Replaced">>, <<"exec", "Failed">> }
          /\ pc[p] \in {"Replaced", "Failed"} =>
               /\ pc'[p] = pc[p]
               /\ <<args'[p], session_kind'[p], env'[p], log'[p], execCalls'[p], raised'[p]>>
                    = <<args[p], session_kind[p], env[p], log[p], execCalls[p], raised[p]>>
       ]_vars

C9_Witness ==
  \E p, q \in Procs :
    /\ pc[p] = "Replaced" /\ Len(execCalls[p]) = 1
    /\ pc[q] = "Failed" /\ Len(execCalls[q]) = 1

\* C10: exactly one INFO record is logged per invocation, before the execve
\* call is attempted (so it exists whether the call succeeds or fails), and
\* it shows the resolved path, the argument list and the environment of
\* that call.
C10_LoggedBeforeExec ==
  \A p \in Procs :
    /\ Len(log[p]) <= 1
    /\ pc[p] \in {"exec", "Replaced", "Failed"} => Len(log[p]) = 1
    /\ \A i \in 1..Len(execCalls[p]) :
         /\ Len(log[p]) = 1
         /\ log[p][1].levelname = "INFO"
         /\ LET vals == log[p][1].values
                call == execCalls[p][i]
            IN  /\ \E k \in 1..Len(vals) :
                     \/ vals[k].type = "str" /\ vals[k].value = call.path
                     \/ vals[k].type = "list" /\ \E j \in 1..Len(vals[k].value) :
                                                   vals[k].value[j] = call.path
                /\ \E k \in 1..Len(vals) : vals[k].type = "list" /\ vals[k].value = call.argv
                /\ \E k \in 1..Len(vals) : vals[k].type = "dict" /\ vals[k].value = call.env

\* The record exists before the call is attempted in one invocation and
\* after a failed call in another.
C10_Witness ==
  \E p, q \in Procs :
    /\ pc[p] = "exec" /\ Len(log[p]) = 1 /\ Len(execCalls[p]) = 0
    /\ pc[q] = "Failed" /\ Len(log[q]) = 1

====
